---- MODULE Spec2Model ----
(***************************************************************************)
(* Model of the AliBabaScraper listing pipeline (src/scraper.py): the      *)
(* page loop of search_products, the per-page parse with its cap, the      *)
(* run statistics held on the scraper object, get_stats,                   *)
(* get_product_details and the URL handling of the field extractors.       *)
(***************************************************************************)
EXTENDS Integers, Sequences, FiniteSets, TLC

\* ------------------------------------------------------------------ bounds
\* Largest page count a caller asks for.
MaxPages == 2
\* Number of search_products invocations on the one scraper instance.
MaxRuns == 2
\* An over-full listing page matches ITEM_CAP + MaxOver elements.
MaxOver == 15
\* Attribute values are a prefix and at most MaxTail further characters.
MaxTail == 1
\* Number of elements of a page the listing selectors can match.
MaxElems == 2

\* ------------------------------------------------------- program constants
\* items[:20]
ITEM_CAP == 20
\* img_tags[:10]
IMAGE_CAP == 10

VARIABLES
    stats,          \* the dict object bound to self.stats
    pc,             \* position of the caller / of search_products
    pages,          \* argument `pages` of the running invocation
    page,           \* loop variable of search_products
    soup,           \* the parsed page, live until the page's delay ends
    all_products,   \* local list all_products
    ret,            \* value returned by the last search_products call
    log,            \* I/O performed by the running invocation, in order
    runs,           \* number of search_products invocations started
    held,           \* what the caller's `stats` variable is bound to
    heldAt,         \* contents of that object when get_stats returned
    details,        \* value returned by the last get_product_details call
    item,           \* the listing element last handed to _extract_product_data
    extracted,      \* the dict _extract_product_data returned for it
    page_matches,   \* what each selector matches in the page last resolved
    resolved,       \* the items the selector loop ended with for that page
    resolved_again  \* the same for a second resolution of the same page

vars == <<stats, pc, pages, page, soup, all_products, ret, log, runs, held, heldAt, details,
          item, extracted, page_matches, resolved, resolved_again>>

cascadeVars == <<page_matches, resolved, resolved_again>>

None == "None"

\* details before get_product_details has been called.
NoDetails == [kind |-> "None"]

\* ------------------------------------------------------------- documents
\* A fetched listing page, as far as the pipeline looks at it: how many
\* elements the selector cascade matches (in document order 1..matched)
\* and for which of them _extract_product_data raises: none, the first,
\* the first one past the cap, or all of them. A page matches nothing, a
\* full page of ITEM_CAP elements, or MaxOver more than that.
MatchedCounts == {0, ITEM_CAP, ITEM_CAP + MaxOver}

BadSets(m) == {b \in {{}, {1}, {ITEM_CAP + 1}, 1..m} : b \subseteq 1..m}

PageDocs ==
    UNION {{[matched |-> m, bad |-> b] : b \in BadSets(m)} : m \in MatchedCounts}

\* ------------------------------------------------------------- __init__
InitStats == [products_scraped |-> 0, pages_scraped |-> 0, errors |-> 0]

\* ---------------------------------------------------- _parse_search_page
\* soup.select(selector): the matched elements, in document order.
Select(doc) == [i \in 1..doc.matched |-> i]

Min(a, b) == IF a < b THEN a ELSE b

CandidatesAll(items) == items

\* items[:20]
Candidates(items) == SubSeq(items, 1, Min(Len(items), ITEM_CAP))

\* _extract_product_data as seen by the page loop: a dict, or None when
\* the body raised (the except clause returns None).
NoProduct == [none |-> TRUE]

ExtractProductData(doc, p, i) ==
    IF i \in doc.bad THEN NoProduct ELSE [page |-> p, item |-> i]

RECURSIVE CollectProducts(_, _, _)
CollectProducts(doc, p, items) ==
    IF items = <<>> THEN <<>>
    ELSE LET product == ExtractProductData(doc, p, Head(items))
             rest == CollectProducts(doc, p, Tail(items))
         IN  IF product # NoProduct THEN <<product>> \o rest ELSE rest

ParseSearchPage(doc, p) ==
    LET items == Select(doc)
    IN  IF items = <<>> THEN <<>>
        ELSE CollectProducts(doc, p, Candidates(items))

\* ------------------------------------------------------- search_products
\* One entry of the I/O log: a session.get for page p with its outcome and
\* the products parsed from the response, or a time.sleep.
Event(op, p, ok, products) ==
    [op |-> op, page |-> p, ok |-> ok, products |-> products]

\* pd.DataFrame(all_products) with the scraped_at column added; the empty
\* frame when all_products is empty.
DataFrame(rows) ==
    [i \in 1..Len(rows) |->
        [page |-> rows[i].page, item |-> rows[i].item, scraped_at |-> "now"]]

StatsAfterPageAssign(s, products) ==
    IF products # <<>>
    THEN [s EXCEPT !.pages_scraped = @ + 1,
                   !.products_scraped = Len(products)]
    ELSE s

StatsAfterPageErrOnEmpty(s, products) ==
    IF products # <<>>
    THEN [s EXCEPT !.pages_scraped = @ + 1,
                   !.products_scraped = @ + Len(products)]
    ELSE [s EXCEPT !.errors = @ + 1]

\* if products: pages_scraped += 1; products_scraped += len(products)
StatsAfterPage(s, products) ==
    IF products # <<>>
    THEN [s EXCEPT !.pages_scraped = @ + 1,
                   !.products_scraped = @ + Len(products)]
    ELSE s

\* The for loop moving on: the next page, or the end of the loop.
NextPage ==
    IF page < pages
    THEN pc' = "fetch" /\ page' = page + 1
    ELSE pc' = "return" /\ page' = page

Call(n) ==
    /\ pc \in {"idle", "done"}
    /\ runs < MaxRuns
    /\ runs' = runs + 1
    /\ pages' = n
    /\ all_products' = <<>>
    /\ log' = <<>>
    /\ ret' = None
    /\ details' = NoDetails
    /\ IF n >= 1 THEN pc' = "fetch" /\ page' = 1
                 ELSE pc' = "return" /\ page' = 0
    /\ UNCHANGED <<cascadeVars, item, extracted, stats, soup, held, heldAt>>

\* session.get and raise_for_status succeed; the page is parsed and its
\* products accumulated.
FetchOk(doc) ==
    /\ pc = "fetch"
    /\ LET products == ParseSearchPage(doc, page)
       IN  /\ all_products' = all_products \o products
           /\ stats' = StatsAfterPage(stats, products)
    /\ log' = Append(log, Event("get", page, TRUE, ParseSearchPage(doc, page)))
    /\ soup' = doc
    /\ pc' = "sleep"
    /\ UNCHANGED <<cascadeVars, item, extracted, pages, page, ret, runs, held, heldAt, details>>

\* time.sleep(random.uniform(2, 4)), the last statement of the try body.
Sleep ==
    /\ pc = "sleep"
    /\ log' = Append(log, Event("sleep", page, TRUE, <<>>))
    /\ soup' = None
    /\ NextPage
    /\ UNCHANGED <<cascadeVars, item, extracted, stats, pages, all_products, ret, runs, held, heldAt, details>>

FetchFailAbort ==
    /\ pc = "fetch"
    /\ log' = Append(log, Event("get", page, FALSE, <<>>))
    /\ stats' = [stats EXCEPT !.errors = @ + 1]
    /\ pc' = "return"
    /\ UNCHANGED <<cascadeVars, item, extracted, pages, page, soup, all_products, ret, runs, held, heldAt, details>>

FetchFailClear ==
    /\ pc = "fetch"
    /\ log' = Append(log, Event("get", page, FALSE, <<>>))
    /\ stats' = [stats EXCEPT !.errors = @ + 1]
    /\ all_products' = <<>>
    /\ NextPage
    /\ UNCHANGED <<cascadeVars, item, extracted, pages, soup, ret, runs, held, heldAt, details>>

\* session.get or raise_for_status raises: the except clause counts the
\* error and continues with the next page.
FetchFail ==
    /\ pc = "fetch"
    /\ log' = Append(log, Event("get", page, FALSE, <<>>))
    /\ stats' = [stats EXCEPT !.errors = @ + 1]
    /\ NextPage
    /\ UNCHANGED <<cascadeVars, item, extracted, pages, soup, all_products, ret, runs, held, heldAt, details>>

Return ==
    /\ pc = "return"
    /\ ret' = DataFrame(all_products)
    /\ pc' = "done"
    /\ UNCHANGED <<cascadeVars, item, extracted, stats, pages, page, soup, all_products, log, runs, held, heldAt, details>>

\* -------------------------------------------------------------- get_stats
\* return self.stats: the dict object itself.
get_stats == "self.stats"

\* The dict a reference denotes.
Deref(ref) == IF ref = "self.stats" THEN stats ELSE None

GetStats ==
    /\ pc = "done"
    /\ held' = get_stats
    /\ heldAt' = Deref(get_stats)
    /\ UNCHANGED <<cascadeVars, item, extracted, stats, pc, pages, page, soup, all_products, ret, log, runs, details>>

\* ------------------------------------------------------------ strings
\* A Python str is the sequence of its characters.
HTTP == <<"h", "t", "t", "p">>

HTTPS_COLON == <<"h", "t", "t", "p", "s", ":">>

DATA_COLON == <<"d", "a", "t", "a", ":">>

\* self.base_url = "https://www.alibaba.com"
base_url ==
    <<"h", "t", "t", "p", "s", ":", "/", "/", "w", "w", "w", ".",
      "a", "l", "i", "b", "a", "b", "a", ".", "c", "o", "m">>

\* str.startswith
StartsWith(s, prefix) ==
    /\ Len(s) >= Len(prefix)
    /\ SubSeq(s, 1, Len(prefix)) = prefix

\* The attribute values the extractors are tried on: a prefix followed by
\* at most MaxTail further characters.
Prefixes ==
    {<<>>, <<"/">>, <<"/", "/">>, HTTP, HTTP \o <<":", "/", "/">>,
     HTTPS_COLON \o <<"/", "/">>, DATA_COLON}

RECURSIVE Tails(_)
Tails(n) ==
    IF n = 0 THEN {<<>>}
    ELSE Tails(n - 1) \cup
         {Append(t, c) : t \in {u \in Tails(n - 1) : Len(u) = n - 1},
                         c \in {"a", "/", "."}}

Sources == {pre \o t : pre \in Prefixes, t \in Tails(MaxTail)}

\* ------------------------------------------------- _extract_product_data
\* A listing element, as far as the link and image extractors look at it:
\* the href values of its anchors that have one and the src values of its
\* img elements that have one, both in document order.
NoItem == [none |-> TRUE]

Items ==
    {[anchors |-> a, imgs |-> i] :
        a \in {<<>>} \cup {<<h>> : h \in Sources},
        i \in {<<>>}}
    \cup
    {[anchors |-> <<>>, imgs |-> <<u>>] : u \in Sources}
    \cup
    {[anchors |-> <<u, HTTP>>, imgs |-> <<u, HTTP>>] : u \in Sources}

\* link_elem = item.find('a', href=True) and what follows.
ExtractLink(it) ==
    IF it.anchors # <<>>
    THEN LET link == Head(it.anchors)
         IN  IF ~StartsWith(link, HTTP) THEN base_url \o link ELSE link
    ELSE <<"#">>

\* img_elem = item.find('img', src=True) and what follows.
ExtractImageUrl(it) ==
    LET img_url == IF it.imgs # <<>> THEN Head(it.imgs) ELSE <<>>
    IN  IF img_url # <<>> /\ ~StartsWith(img_url, HTTP)
        THEN HTTPS_COLON \o img_url
        ELSE img_url

\* The link and image_url entries of the returned dict.
ExtractFields(it) ==
    [link |-> ExtractLink(it), image_url |-> ExtractImageUrl(it)]

\* _extract_product_data called on one element.
ExtractItem(it) ==
    /\ pc = "idle"
    /\ item' = it
    /\ extracted' = ExtractFields(it)
    /\ UNCHANGED <<cascadeVars, stats, pc, pages, page, soup, all_products, ret, log,
                   runs, held, heldAt, details>>

\* --------------------------------------- _extract_product_data: fields
\* The keys of the returned dict that are looked up in the element.
FIELDS == {"title", "price", "moq", "supplier", "link", "image_url", "rating"}

\* The value a key gets when its element is not found. A sentinel is
\* written as one token; "#" and "" are as in ExtractLink, ExtractImageUrl.
Sentinel(f) ==
    CASE f = "title" -> <<"No Title">>
      [] f = "price" -> <<"Price NA">>
      [] f = "moq" -> <<"MOQ NA">>
      [] f = "supplier" -> <<"Supplier NA">>
      [] f = "link" -> <<"#">>
      [] f = "image_url" -> <<>>
      [] f = "rating" -> <<"No Rating">>

\* A listing element, as far as the seven lookups see it: the fields whose
\* element it has, the one among them (if any) whose element is malformed
\* so that extracting it raises, and whether its texts come with
\* surrounding whitespace.
Elements ==
    UNION {{[has |-> h, faulty |-> b, padded |-> w] :
                b \in {{}} \cup {{f} : f \in h}, w \in BOOLEAN} :
           h \in SUBSET FIELDS}

\* The text of the element found for field f.
RawText(el, f) == IF el.padded THEN <<" ", f, " ">> ELSE <<f>>

\* str.strip / get_text(strip=True)
RECURSIVE StripLeft(_)
StripLeft(s) ==
    IF s # <<>> /\ Head(s) = " " THEN StripLeft(Tail(s)) ELSE s

RECURSIVE StripRight(_)
StripRight(s) ==
    IF s # <<>> /\ s[Len(s)] = " " THEN StripRight(SubSeq(s, 1, Len(s) - 1)) ELSE s

Strip(s) == StripRight(StripLeft(s))

\* The anchors and images of the element, for ExtractLink / ExtractImageUrl.
LinkPart(el) ==
    [anchors |-> IF "link" \in el.has THEN <<(<<"/", "p">>)>> ELSE <<>>,
     imgs |-> IF "image_url" \in el.has THEN <<(<<"/", "/", "i">>)>> ELSE <<>>]

\* x_elem.get_text(strip=True) if x_elem else sentinel
TextField(el, f) ==
    IF f \in el.has THEN Strip(RawText(el, f)) ELSE Sentinel(f)

\* The body of _extract_product_data: the dict of all fields, or None when
\* anything in the try body raised.
ExtractRecord(el) ==
    IF el.faulty # {}
    THEN NoProduct
    ELSE [title |-> TextField(el, "title"),
          price |-> TextField(el, "price"),
          moq |-> TextField(el, "moq"),
          supplier |-> TextField(el, "supplier"),
          link |-> ExtractLink(LinkPart(el)),
          image_url |-> ExtractImageUrl(LinkPart(el)),
          rating |-> TextField(el, "rating"),
          source |-> <<"Alibaba">>]

\* _extract_product_data called on one element.
ExtractElement(el) ==
    /\ pc = "idle"
    /\ item = NoItem
    /\ item' = el
    /\ extracted' = ExtractRecord(el)
    /\ UNCHANGED <<cascadeVars, stats, pc, pages, page, soup, all_products, ret, log,
                   runs, held, heldAt, details>>

\* ------------------------------------------------------- _extract_images
\* img_tags: the src values of the img elements whose src matches
\* product|detail|gallery, in document order.
RECURSIVE ImagesOf(_)
ImagesOf(srcs) ==
    IF srcs = <<>> THEN <<>>
    ELSE LET src == Head(srcs)
             rest == ImagesOf(Tail(srcs))
         IN  IF src # <<>> /\ ~StartsWith(src, DATA_COLON)
             THEN <<IF ~StartsWith(src, HTTP) THEN HTTPS_COLON \o src ELSE src>> \o rest
             ELSE rest

\* for img in img_tags[:10]
ExtractImages(img_tags) ==
    ImagesOf(SubSeq(img_tags, 1, Min(Len(img_tags), IMAGE_CAP)))

DetailDocs ==
    {<<>>} \cup {<<u>> : u \in Sources}
    \cup {[i \in 1..(IMAGE_CAP + 1) |-> HTTP]}

\* ---------------------------------------------------- get_product_details
\* The details dict, or {} when the fetch raised.
GetProductDetails(ok, img_tags) ==
    /\ pc \in {"idle", "done"}
    /\ details' = IF ok
                  THEN [kind |-> "details", img_tags |-> img_tags,
                        images |-> ExtractImages(img_tags)]
                  ELSE [kind |-> "{}"]
    /\ UNCHANGED <<cascadeVars, item, extracted, stats, pc, pages, page, soup, all_products, ret, log,
                   runs, held, heldAt>>

\* ------------------------------------- _parse_search_page: the selectors
\* selectors = [...], in the order they are tried.
\* (the quotes inside the first and the last selector are left out)
SELECTORS ==
    <<"div[data-content*=product]", ".item-content", ".product-card",
      ".organic-list", "div[component=product]">>

\* A parsed page, as far as the selectors look at it: for each selector,
\* in the order of SELECTORS, the elements soup.select returns for it (a
\* list in document order of some of the page's elements 1..MaxElems).
RECURSIVE InOrder(_, _)
InOrder(S, n) ==
    IF n = 0 THEN <<>>
    ELSE IF n \in S THEN Append(InOrder(S, n - 1), n) ELSE InOrder(S, n - 1)

MatchLists == {InOrder(S, MaxElems) : S \in SUBSET (1..MaxElems)}

CascadeDocs == [1..Len(SELECTORS) -> MatchLists]

\* The loop before any selector has been tried.
NotResolved == [items |-> <<>>, tried |-> 0]

RECURSIVE SelectLoopNoBreak(_, _)
SelectLoopNoBreak(m, k) ==
    LET items == m[k]
    IN  IF k = Len(SELECTORS)
        THEN [items |-> items, tried |-> k]
        ELSE SelectLoopNoBreak(m, k + 1)

\* for selector in selectors: items = soup.select(selector); if items: break
\* from the k-th selector on: the items the loop ends with and the number
\* of selectors it has evaluated.
RECURSIVE SelectLoop(_, _)
SelectLoop(m, k) ==
    LET items == m[k]
    IN  IF items # <<>> \/ k = Len(SELECTORS)
        THEN [items |-> items, tried |-> k]
        ELSE SelectLoop(m, k + 1)

\* The selector loop run on a page.
ResolveItems(m) ==
    /\ page_matches = <<>>
    /\ page_matches' = m
    /\ resolved' = SelectLoop(m, 1)
    /\ UNCHANGED <<resolved_again, item, extracted, stats, pc, pages, page, soup,
                   all_products, ret, log, runs, held, heldAt, details>>

\* The selector loop run once more on the same page.
ResolveAgain ==
    /\ page_matches # <<>>
    /\ resolved_again = NotResolved
    /\ resolved_again' = SelectLoop(page_matches, 1)
    /\ UNCHANGED <<page_matches, resolved, item, extracted, stats, pc, pages, page, soup,
                   all_products, ret, log, runs, held, heldAt, details>>

\* ---------------------------------------------------------- specification
Init ==
    /\ stats = InitStats
    /\ pc = "idle"
    /\ pages = 0
    /\ page = 0
    /\ soup = None
    /\ all_products = <<>>
    /\ ret = None
    /\ log = <<>>
    /\ runs = 0
    /\ held = None
    /\ heldAt = None
    /\ details = NoDetails
    /\ item = NoItem
    /\ extracted = NoProduct
    /\ page_matches = <<>>
    /\ resolved = NotResolved
    /\ resolved_again = NotResolved

Next ==
    \/ \E n \in 1..MaxPages : Call(n)
    \/ \E doc \in PageDocs : FetchOk(doc)
    \/ FetchFail
    \/ Sleep
    \/ Return
    \/ GetStats
    \/ \E ok \in BOOLEAN : GetProductDetails(ok, <<>>)

Spec == Init /\ [][Next]_vars

NextUrl ==
    \/ \E it \in Items : ExtractItem(it)
    \/ \E img_tags \in DetailDocs : GetProductDetails(TRUE, img_tags)

\* The extractors alone, tried on every element and detail page of the
\* input sets.
SpecUrl == Init /\ [][NextUrl]_vars

NextFields == item = NoItem /\ \E el \in Elements : ExtractElement(el)

\* _extract_product_data alone, run on every element of the input set.
SpecFields == Init /\ [][NextFields]_vars

NextCascade ==
    \/ page_matches = <<>> /\ \E m \in CascadeDocs : ResolveItems(m)
    \/ ResolveAgain

\* The selector loop alone, run on every page of the input set.
SpecCascade == Init /\ [][NextCascade]_vars

\* The caller assigns 0 to entry k of the dict its `stats` variable is
\* bound to (the store goes to the object get_stats returned).
CallerWrite(k) ==
    /\ pc = "done"
    /\ held = "self.stats"
    /\ stats' = [stats EXCEPT ![k] = 0]
    /\ heldAt' = [heldAt EXCEPT ![k] = 0]
    /\ UNCHANGED <<cascadeVars, item, extracted, pc, pages, page, soup, all_products, ret, log, runs, held, details>>

NextCaller ==
    \/ Next
    \/ \E k \in DOMAIN InitStats : CallerWrite(k)

\* The scraper used by a caller that also writes to the stats it was given.
SpecCaller == Init /\ [][NextCaller]_vars

\* ------------------------------------------------------ reading the log
Gets == SelectSeq(log, LAMBDA e : e.op = "get")

OkGets == SelectSeq(log, LAMBDA e : e.op = "get" /\ e.ok)

FailedGets == SelectSeq(log, LAMBDA e : e.op = "get" /\ ~e.ok)

RECURSIVE ConcatProducts(_)
ConcatProducts(events) ==
    IF events = <<>> THEN <<>>
    ELSE Head(events).products \o ConcatProducts(Tail(events))

\* The rows of a returned frame without the scraped_at column.
Rows(df) == [i \in 1..Len(df) |-> [page |-> df[i].page, item |-> df[i].item]]

InRun == pc \in {"fetch", "sleep", "return", "done"}

FirstRun == runs = 1 /\ InRun

\* --------------------------------------------------------------- claims

\* C1: the records accumulated by search_products, and the frame it
\* returns, are exactly the concatenation, in increasing page order, of the
\* records parsed from the pages whose fetch succeeded; a failed fetch adds
\* nothing, removes nothing, and the pages after it are still fetched.
C1_PartialResultsKept ==
    /\ InRun =>
        /\ all_products = ConcatProducts(OkGets)
        /\ \A i \in 1..Len(Gets) : Gets[i].page = i
        /\ \A i \in 1..Len(FailedGets) : FailedGets[i].products = <<>>
    /\ pc = "done" =>
        /\ Rows(ret) = ConcatProducts(OkGets)
        /\ Len(Gets) = pages

\* A run of MaxPages pages whose last fetch was the only one to fail has
\* returned the ITEM_CAP records accumulated from the earlier pages.
C1_Witness ==
    /\ pc = "done"
    /\ pages = MaxPages
    /\ Len(FailedGets) = 1
    /\ FailedGets[1].page = pages
    /\ Len(ret) = ITEM_CAP

\* C2: after the first Run on a fresh scraper, pages_scraped is the number
\* of pages whose fetch and parse completed, zero-result pages included.
C2_PagesScrapedCountsFetchedPages ==
    (pc = "done" /\ runs = 1) => stats.pages_scraped = Len(OkGets)

\* C3: during and after the first Run on a fresh scraper, errors is the
\* number of failed fetches; zero-result pages and items whose extraction
\* failed leave it alone.
C3_ErrorsCountFailedFetches ==
    FirstRun => stats.errors = Len(FailedGets)

\* Page 1's fetch failed; page 2 was fetched and every one of its matched
\* items failed to extract, so it is a zero-result page.
C3_Witness ==
    /\ runs = 1
    /\ pc = "sleep"
    /\ page = MaxPages
    /\ Len(FailedGets) = page - 1
    /\ soup.matched >= ITEM_CAP
    /\ soup.bad = 1..soup.matched
    /\ stats.errors = page - 1

\* C4: whenever search_products returns, products_scraped is the number of
\* records in the frame that invocation returned.
C4_ProductsScrapedIsPerRun ==
    pc = "done" => stats.products_scraped = Len(ret)

\* C5: search_products fetches pages 1..N once each in increasing order,
\* is never stuck or aborted before page N, and returns a frame, the empty
\* one when no page yielded a record.
C5_OneFetchPerPageThenReturn ==
    /\ InRun =>
        /\ \A i \in 1..Len(Gets) : Gets[i].page = i
        /\ Len(Gets) <= pages
        /\ Len(log) <= 2 * pages
    /\ pc = "fetch" => Len(Gets) = page - 1 /\ page \in 1..pages
    /\ pc = "sleep" => Len(Gets) = page /\ page \in 1..pages
    /\ pc \in {"fetch", "sleep", "return"} =>
        ENABLED (FetchFail \/ (\E doc \in PageDocs : FetchOk(doc)) \/ Sleep \/ Return)
    /\ pc \in {"return", "done"} => Len(Gets) = pages
    /\ pc = "done" =>
        /\ Rows(ret) = all_products
        /\ (\A i \in 1..Len(OkGets) : OkGets[i].products = <<>>) => ret = <<>>

\* A run of MaxPages pages in which every fetch failed has returned the
\* empty frame.
C5_Witness ==
    /\ pc = "done"
    /\ pages = MaxPages
    /\ Len(FailedGets) = pages
    /\ ret = <<>>

NonNegative(s) ==
    /\ s.products_scraped \in Nat
    /\ s.pages_scraped \in Nat
    /\ s.errors \in Nat

\* C6: the three counters are 0 at creation, are non-negative integers in
\* every state, and no step of search_products, get_product_details or
\* get_stats decreases one of them.
C6_CountersMonotone ==
    /\ stats = InitStats
    /\ [](NonNegative(stats))
    /\ [][/\ stats'.products_scraped >= stats.products_scraped
          /\ stats'.pages_scraped >= stats.pages_scraped
          /\ stats'.errors >= stats.errors]_vars

\* A later Run on the instance has returned and get_product_details has
\* been called, after a get_stats that followed a Run which counted
\* products and an error; the counters have grown past the values then.
C6_Witness ==
    /\ runs = MaxRuns
    /\ pc = "done"
    /\ details.kind = "details"
    /\ held = "self.stats"
    /\ heldAt.products_scraped > 0
    /\ heldAt.errors > 0
    /\ stats.products_scraped > heldAt.products_scraped
    /\ stats.errors > heldAt.errors

\* C7: a page contributes at most ITEM_CAP records, all of them taken from
\* its first ITEM_CAP matched elements, and raises products_scraped by at
\* most ITEM_CAP.
C7_PageCap ==
    /\ [](\A i \in 1..Len(Gets) :
            /\ Len(Gets[i].products) <= ITEM_CAP
            /\ \A j \in 1..Len(Gets[i].products) :
                  Gets[i].products[j].item \in 1..ITEM_CAP)
    /\ [][stats'.products_scraped <= stats.products_scraped + ITEM_CAP]_vars

\* A page with ITEM_CAP + MaxOver matched elements has just been parsed
\* and has yielded ITEM_CAP records.
C7_Witness ==
    /\ pc = "sleep"
    /\ soup.matched = ITEM_CAP + MaxOver
    /\ soup.bad = {}
    /\ Len(log[Len(log)].products) = ITEM_CAP

\* C9: the value get_stats returned keeps the contents it had at the call
\* (apart from what the caller itself stored in it), and a store by the
\* caller leaves the scraper's counters as they were.
C9_StatsIsSnapshot ==
    /\ [](held = "self.stats" => Deref(held) = heldAt)
    /\ [][(\E k \in DOMAIN InitStats : CallerWrite(k)) => stats' = stats]_vars

\* C10: within a Run, every page fetch after the first one is directly
\* preceded by the inter-page delay, whatever the earlier page's outcome.
C10_DelayBetweenFetches ==
    InRun =>
        \A i \in 2..Len(log) : log[i].op = "get" => log[i - 1].op = "sleep"

\* A source of one of the three shapes the absolutization rule names.
ProtocolRelative(src) == StartsWith(src, <<"/", "/">>)

RootRelative(src) == StartsWith(src, <<"/">>) /\ ~ProtocolRelative(src)

AlreadyAbsolute(src) == StartsWith(src, HTTP)

\* The URL the absolutization rule gives for such a source.
Absolutized(src) ==
    IF ProtocolRelative(src) THEN HTTPS_COLON \o src
    ELSE IF RootRelative(src) THEN base_url \o src
    ELSE src

Shaped(src) == ProtocolRelative(src) \/ RootRelative(src) \/ AlreadyAbsolute(src)

AbsoluteUrl(u) ==
    \/ StartsWith(u, HTTP \o <<":", "/", "/">>)
    \/ StartsWith(u, HTTPS_COLON \o <<"/", "/">>)

\* C8: the link and the image source of a listing item, and a detail-page
\* image, are absolutized alike: //host/path gets https: in front, /path
\* gets base_url in front, a source starting with http is unchanged; so
\* for such sources a link is an absolute URL or "#" and an image_url an
\* absolute URL or "".
C8_Absolutization ==
    /\ item # NoItem =>
        /\ (item.anchors # <<>> /\ Shaped(Head(item.anchors))) =>
              extracted.link = Absolutized(Head(item.anchors))
        /\ (item.imgs # <<>> /\ Shaped(Head(item.imgs))) =>
              extracted.image_url = Absolutized(Head(item.imgs))
        /\ (item.anchors = <<>> \/ Shaped(Head(item.anchors))) =>
              (extracted.link = <<"#">> \/ AbsoluteUrl(extracted.link))
        /\ (item.imgs = <<>> \/ Shaped(Head(item.imgs))) =>
              (extracted.image_url = <<>> \/ AbsoluteUrl(extracted.image_url))
    /\ (details.kind = "details" /\ Len(details.img_tags) = 1
            /\ Shaped(details.img_tags[1])) =>
          details.images = <<Absolutized(details.img_tags[1])>>

\* The first selector, in the order of SELECTORS, with a match in page m;
\* 0 when every selector misses.
FirstMatching(m) ==
    IF \E k \in 1..Len(SELECTORS) : m[k] # <<>>
    THEN CHOOSE k \in 1..Len(SELECTORS) :
            /\ m[k] # <<>>
            /\ \A j \in 1..(k - 1) : m[j] = <<>>
    ELSE 0

\* C11: the selector loop ends with exactly the matches of the first
\* selector, in the fixed order, that matches anything, without evaluating
\* a later one; with the empty list when every selector misses; and with
\* the same list when it is run again on the same page.
C11_FirstMatchingSelector ==
    page_matches # <<>> =>
        /\ FirstMatching(page_matches) # 0 =>
              /\ resolved.items = page_matches[FirstMatching(page_matches)]
              /\ resolved.tried = FirstMatching(page_matches)
        /\ FirstMatching(page_matches) = 0 =>
              /\ resolved.items = <<>>
              /\ resolved.tried = Len(SELECTORS)
        /\ resolved_again # NotResolved => resolved_again = resolved

\* The first selector misses, the second matches one element and a later
\* one matches other elements; the loop, run twice, ended with the second
\* selector's match.
C11_Witness ==
    /\ page_matches # <<>>
    /\ page_matches[1] = <<>>
    /\ Len(page_matches[2]) = 1
    /\ \E k \in 3..Len(SELECTORS) :
          /\ page_matches[k] # <<>>
          /\ page_matches[k] # page_matches[2]
    /\ resolved.items = page_matches[2]
    /\ resolved_again = resolved

\* The value the element gives for field f.
ValueIn(el, f) ==
    CASE f = "link" -> ExtractLink(LinkPart(el))
      [] f = "image_url" -> ExtractImageUrl(LinkPart(el))
      [] OTHER -> Strip(RawText(el, f))

\* C12: whatever fields are absent from an element and whichever field's
\* extraction faults, a record is emitted with the full field set, each
\* absent field as its sentinel and every other field that did not fault
\* with the value extracted from the element.
C12_FieldsIndependent ==
    item # NoItem =>
        /\ extracted # NoProduct
        /\ DOMAIN extracted = FIELDS \cup {"source"}
        /\ \A f \in FIELDS \ item.has : extracted[f] = Sentinel(f)
        /\ \A f \in (FIELDS \cap item.has) \ item.faulty : extracted[f] = ValueIn(item, f)

\* The same for the elements none of whose fields faults.
C12_NoFault == item # NoItem /\ item.faulty = {} => C12_FieldsIndependent

====
